---- MODULE Spec2Model ----
(***************************************************************************)
(* CAD geometry extraction of FireBridgeCAM: the DXF and SVG loaders       *)
(* (plasma_core/parsers/dxf_parser.py, svg_parser.py, __init__.py).        *)
(*                                                                         *)
(* Text is a sequence of one-character strings, except that a coordinate   *)
(* pair of SVG path data ("10,0") is kept as one symbol.  An optional      *)
(* value is a sequence of length 0 (absent, or the accessor raises) or 1.  *)
(* A call that may raise returns a record [exc, val]: exc = TRUE stands    *)
(* for a Python exception leaving the call.                                *)
(***************************************************************************)
EXTENDS Integers, Sequences, FiniteSets, TLC

VARIABLES
    pc,            \* which call is in progress, and where it stands
    d_string,      \* argument of _split_path_by_moves
    subpaths,      \* its return value
    fe_entity,     \* arguments of _flatten_entity
    fe_tol,
    fe_ret,        \* its outcome: [exc, val]
    call,          \* the loader called, how its imports went, the file's state
    q_units,       \* the "units" value of the application's QSettings
    units,         \* the unit token given to load_dxf
    tol_mm,        \* tol_mm of load_svg
    paths,         \* the list the call is building (paths / result)
    consumed,      \* entities or markup items the loop has consumed
    cur,           \* the item of the last iteration
    srcs,          \* for each Path of paths, the item and subpath it is from
    ret,           \* what the call returned, once it has
    raised,        \* an exception left the loader
    tw_file,       \* the file that is loaded twice
    tw_first,      \* outcome of the first load: [exc, paths, srcs]
    tw_mode,       \* the units setting as the first load read it
    tw_second,     \* outcome of the second load
    tw_dropped     \* position of the entity the second document lacks, or 0

pure_vars == <<d_string, subpaths, fe_entity, fe_tol, fe_ret>>
load_vars == <<call, q_units, units, tol_mm, paths, consumed, cur, srcs, ret,
               raised>>
twice_vars == <<tw_file, tw_first, tw_mode, tw_second, tw_dropped>>
vars == <<pc, pure_vars, load_vars, twice_vars>>

(***************************************************************************)
(* Bounds of the model                                                     *)
(***************************************************************************)
MaxLen == 4        \* longest path-data string handed to the splitter alone
MaxItems == 2      \* entities of a DXF document, markup items of an SVG file
MaxTwice == 2      \* the same, for the files that are loaded twice

(***************************************************************************)
(* Python helpers                                                          *)
(***************************************************************************)
None == <<>>
Some(v) == <<v>>

Ok(v) == [exc |-> FALSE, val |-> v]
Raise == [exc |-> TRUE, val |-> <<>>]

Last(s) == s[Len(s)]

Whitespace == {" "}

RECURSIVE lstrip(_)
lstrip(s) ==
    IF Len(s) > 0 /\ s[1] \in Whitespace THEN lstrip(Tail(s)) ELSE s

RECURSIVE rstrip(_)
rstrip(s) ==
    IF Len(s) > 0 /\ s[Len(s)] \in Whitespace
    THEN rstrip(SubSeq(s, 1, Len(s) - 1))
    ELSE s

\* str.strip()
strip(s) == rstrip(lstrip(s))

UpperCase ==
    <<"A", "B", "C", "D", "E", "F", "G", "H", "I", "J", "K", "L", "M",
      "N", "O", "P", "Q", "R", "S", "T", "U", "V", "W", "X", "Y", "Z">>
LowerCase ==
    <<"a", "b", "c", "d", "e", "f", "g", "h", "i", "j", "k", "l", "m",
      "n", "o", "p", "q", "r", "s", "t", "u", "v", "w", "x", "y", "z">>

IndexIn(alphabet, c) == CHOOSE k \in 1..Len(alphabet) : alphabet[k] = c
Occurs(alphabet, c) == \E k \in 1..Len(alphabet) : alphabet[k] = c

\* str.upper(), str.lower()
upper(s) ==
    [i \in 1..Len(s) |->
        IF Occurs(LowerCase, s[i]) THEN UpperCase[IndexIn(LowerCase, s[i])]
        ELSE s[i]]
lower(s) ==
    [i \in 1..Len(s) |->
        IF Occurs(UpperCase, s[i]) THEN LowerCase[IndexIn(UpperCase, s[i])]
        ELSE s[i]]

\* str.startswith(), str.endswith()
startswith(s, prefix) ==
    Len(s) >= Len(prefix) /\ SubSeq(s, 1, Len(prefix)) = prefix
endswith(s, suffix) ==
    Len(s) >= Len(suffix)
    /\ SubSeq(s, Len(s) - Len(suffix) + 1, Len(s)) = suffix

RECURSIVE GCD(_, _)
GCD(a, b) == IF b = 0 THEN a ELSE GCD(b, a % b)

\* a non-negative rational in lowest terms
Frac(n, d) == LET g == GCD(n, d) IN <<n \div g, d \div g>>

FracLess(p, q) == p[1] * q[2] < q[1] * p[2]

Max(a, b) == IF a >= b THEN a ELSE b

\* try: body / except Exception: <value>
Catch(r, handled) == IF r.exc THEN Ok(handled) ELSE r

(***************************************************************************)
(* svg_parser._split_path_by_moves                                         *)
(***************************************************************************)
MoveCommands == {"M", "m"}

\* re.split(r'(?=[Mm])', s): a cut before every move command, the one at the
\* start of the string included (it leaves an empty first piece).
RECURSIVE re_split_scan(_, _, _, _)
re_split_scan(s, i, piece, acc) ==
    IF i > Len(s) THEN Append(acc, piece)
    ELSE IF s[i] \in MoveCommands
         THEN re_split_scan(s, i + 1, <<s[i]>>, Append(acc, piece))
         ELSE re_split_scan(s, i + 1, Append(piece, s[i]), acc)

re_split_moves(s) == re_split_scan(s, 1, <<>>, <<>>)

\* the splitter without the filter of line 113
_split_path_by_moves_unfiltered(s) ==
    LET parts == re_split_moves(strip(s))
    IN  [i \in 1..Len(parts) |-> strip(parts[i])]

\* the splitter without the cut of line 110
_split_path_by_moves_uncut(s) ==
    IF Len(strip(s)) = 0 THEN <<>> ELSE <<strip(s)>>

\* lines 99-114

_split_path_by_moves(s) ==
    IF Len(s) = 0 THEN <<>>
    ELSE LET parts == re_split_moves(strip(s))
             kept == SelectSeq(parts, LAMBDA p : Len(strip(p)) > 0)
         IN  [i \in 1..Len(kept) |-> strip(kept[i])]

(***************************************************************************)
(* svgpathtools, as far as the parser uses it.  Lengths are in units of    *)
(* 1e-7 user units; the paths of the model are made of axis-parallel       *)
(* lines, whose length is |dx| + |dy|.                                     *)
(***************************************************************************)
CoordSymbols == {"0,0", "0.0000001,0", "0.2,0", "10,0", "20,0", "30,0"}

Coord(sym) ==
    CASE sym = "0,0" -> <<0, 0>>
      [] sym = "0.0000001,0" -> <<1, 0>>
      [] sym = "0.2,0" -> <<2000000, 0>>
      [] sym = "10,0" -> <<100000000, 0>>
      [] sym = "20,0" -> <<200000000, 0>>
      [] sym = "30,0" -> <<300000000, 0>>

Abs(v) == IF v < 0 THEN -v ELSE v

Line(s, e) == [s |-> s, e |-> e]
LineLength(seg) == Abs(seg.e[1] - seg.s[1]) + Abs(seg.e[2] - seg.s[2])

\* The parser of path data: M/m and L take coordinate pairs, further pairs
\* repeat a line-to, Z/z closes the subpath; a command with no pair to read
\* raises.  The state is [cur, start, cmd, segs].
RECURSIVE ParseTokens(_, _, _)
ParseTokens(toks, i, st) ==
    IF i > Len(toks) THEN Ok(st.segs)
    ELSE LET tok == toks[i]
             hasArg == i < Len(toks) /\ toks[i + 1] \in CoordSymbols
         IN  CASE tok = "M" ->
                    IF ~hasArg THEN Raise
                    ELSE ParseTokens(toks, i + 2,
                            [st EXCEPT !.cur = Coord(toks[i + 1]),
                                       !.start = Some(Coord(toks[i + 1])),
                                       !.cmd = "L"])
               [] tok = "m" ->
                    IF ~hasArg THEN Raise
                    ELSE LET c == Coord(toks[i + 1])
                             to == <<st.cur[1] + c[1], st.cur[2] + c[2]>>
                         IN  ParseTokens(toks, i + 2,
                                [st EXCEPT !.cur = to, !.start = Some(to),
                                           !.cmd = "L"])
               [] tok = "L" ->
                    IF ~hasArg THEN Raise
                    ELSE ParseTokens(toks, i + 2,
                            [st EXCEPT !.cur = Coord(toks[i + 1]),
                                       !.cmd = "L",
                                       !.segs = Append(@, Line(st.cur, Coord(toks[i + 1])))])
               [] tok \in {"Z", "z"} ->
                    IF st.start = None THEN Raise
                    ELSE ParseTokens(toks, i + 1,
                            [st EXCEPT !.cur = st.start[1],
                                       !.cmd = "",
                                       !.segs = IF st.cur # st.start[1]
                                                THEN Append(@, Line(st.cur, st.start[1]))
                                                ELSE @])
               [] tok \in CoordSymbols ->
                    IF st.cmd # "L" THEN Raise
                    ELSE ParseTokens(toks, i + 1,
                            [st EXCEPT !.cur = Coord(tok),
                                       !.segs = Append(@, Line(st.cur, Coord(tok)))])
               [] OTHER -> Raise

\* parse_path(subpath_str): the Path object is its sequence of segments
parse_path(text) ==
    ParseTokens(SelectSeq(text, LAMBDA c : c \notin Whitespace), 1,
                [cur |-> <<0, 0>>, start |-> None, cmd |-> "", segs |-> <<>>])

RECURSIVE SumLengths(_, _)
SumLengths(path, k) ==
    IF k = 0 THEN 0 ELSE SumLengths(path, k - 1) + LineLength(path[k])

\* Path.length()
PathLength(path) == SumLengths(path, Len(path))

\* Path.isclosed(): the segments of one subpath are continuous
PathIsClosed(path) == Ok(path[1].s = Last(path).e)

\* v * i / n without overflow
MulDiv(v, i, n) == (v \div n) * i + ((v % n) * i) \div n

Sign(v) == IF v > 0 THEN 1 ELSE IF v < 0 THEN -1 ELSE 0

\* the point at distance off from the start of a line
Advance(seg, off) ==
    <<seg.s[1] + Sign(seg.e[1] - seg.s[1]) * off,
      seg.s[2] + Sign(seg.e[2] - seg.s[2]) * off>>

\* the first segment that reaches the arc length at
SegmentAt(path, at) ==
    CHOOSE j \in 1..Len(path) :
        /\ SumLengths(path, j) >= at
        /\ \A h \in 1..(j - 1) : SumLengths(path, h) < at

PointOnSegment(path, at, k) ==
    Ok(Advance(path[k], at - SumLengths(path, k - 1)))

PointAtLength(path, at) == PointOnSegment(path, at, SegmentAt(path, at))

\* inside the path the segment is found by arc length, which divides by the
\* total length
PointInside(path, total, i, n) ==
    IF total = 0 THEN Raise ELSE PointAtLength(path, MulDiv(total, i, n))

\* Path.point(i / n): the ends are read off the first and last segment
PathPoint(path, i, n) ==
    IF i = 0 THEN Ok(path[1].s)
    ELSE IF i = n THEN Ok(Last(path).e)
    ELSE PointInside(path, PathLength(path), i, n)

(***************************************************************************)
(* svg_parser                                                              *)
(***************************************************************************)
\* lines 35-59, a fraction
svg_unit_scale_to_mm(unit) ==
    IF Len(unit) = 0 THEN <<1, 1>>
    ELSE IF lower(strip(unit))
                \in {<<"m", "m">>,
                     <<"m", "i", "l", "l", "i", "m", "e", "t", "e", "r">>,
                     <<"m", "i", "l", "l", "i", "m", "e", "t", "e", "r", "s">>}
    THEN <<1, 1>>
    ELSE IF lower(strip(unit))
                \in {<<"i", "n", "c", "h">>,
                     <<"i", "n", "c", "h", "e", "s">>,
                     <<"i", "n">>}
    THEN <<127, 5>>
    ELSE IF lower(strip(unit))
                \in {<<"c", "m">>,
                     <<"c", "e", "n", "t", "i", "m", "e", "t", "e", "r">>,
                     <<"c", "e", "n", "t", "i", "m", "e", "t", "e", "r", "s">>}
    THEN <<10, 1>>
    ELSE IF lower(strip(unit))
                \in {<<"p", "x">>,
                     <<"p", "i", "x", "e", "l", "s">>,
                     <<"p", "i", "x", "e", "l">>}
    THEN <<127, 480>>
    ELSE <<1, 1>>

MinSegs == 64

\* lines 75-83: length = max(path.length(), 1e-3) and
\* segs = max(64, int(length / max(tol_mm, 1e-3))); tol is in thousandths (50
\* for 0.05, 2 for 0.002)
SegCount(path, tol) ==
    Max(MinSegs, Max(PathLength(path), 10000) \div (Max(tol, 1) * 10000))

\* lines 85-91: a sample that raises is skipped
Sampled(outcomes) ==
    [k \in 1..Len(outcomes) |-> outcomes[k].val]

SamplePoints(path, segs) ==
    Sampled(SelectSeq([k \in 1..(segs + 1) |-> PathPoint(path, k - 1, segs)],
                      LAMBDA r : ~r.exc))

\* lines 65-93
_flatten_path_points(path, tol) == SamplePoints(path, SegCount(path, tol))

\* 0.05 for the mode "metric" alone
SvgTolerance_exact(current_units) ==
    IF current_units = None \/ current_units = Some(<<"m", "e", "t", "r", "i", "c">>)
    THEN 50 ELSE 2

\* line 157: the units setting is None when nothing could be read
SvgTolerance(current_units) ==
    IF startswith(IF current_units = None THEN <<"m", "e", "t", "r", "i", "c">>
                  ELSE current_units[1],
                  <<"m", "e", "t">>)
    THEN 50 ELSE 2

\* lines 201-205: the ends within 1e-6
EndsMeet(pts) ==
    /\ Abs(pts[1][1] - Last(pts)[1]) < 10
    /\ Abs(pts[1][2] - Last(pts)[2]) < 10

\* lines 197-205: what the curve reports, else the ends
CurveClosed(reported, pts) ==
    IF ~reported.exc THEN reported.val ELSE EndsMeet(pts)

\* lines 190-205: Z at the end, else what the curve reports, else the ends
SvgClosed(subpath_str, path, pts) ==
    IF endswith(upper(strip(subpath_str)), <<"Z">>) THEN TRUE
    ELSE CurveClosed(PathIsClosed(path), pts)

\* lines 208-209
SvgForceClose(closed, pts) ==
    IF closed /\ pts[1] # Last(pts) THEN Append(pts, pts[1]) ELSE pts

\* line 212
SvgScalePt(p, k) == <<MulDiv(p[1], k[1], k[2]), MulDiv(p[2], k[1], k[2])>>

SvgScalePts(pts, k) == [i \in 1..Len(pts) |-> SvgScalePt(pts[i], k)]

\* lines 218-220
SvgColor(attrs) ==
    IF attrs.stroke \in {Some("none"), Some(""), None} THEN None
    ELSE attrs.stroke

\* lines 207-229
SvgPath(attrs, closed, pts) ==
    [points |-> SvgScalePts(SvgForceClose(closed, pts),
                            svg_unit_scale_to_mm(<<"p", "x">>)),
     closed |-> closed,
     layer |-> attrs.id,
     color |-> SvgColor(attrs),
     source |-> "svg"]

\* lines 187-229
SvgFlattened(subpath_str, attrs, path, pts) ==
    IF Len(pts) < 2 THEN <<>>
    ELSE <<SvgPath(attrs, SvgClosed(subpath_str, path, pts), pts)>>

\* lines 177-186
SvgParsed(subpath_str, attrs, parsed, tol) ==
    IF parsed.exc THEN <<>>
    ELSE IF Len(parsed.val) = 0 THEN <<>>
    ELSE SvgFlattened(subpath_str, attrs, parsed.val,
                      _flatten_path_points(parsed.val, tol))

\* lines 173-229, one subpath: the Paths it appends
SvgSubpath(subpath_str, attrs, tol) ==
    IF Len(strip(subpath_str)) = 0 THEN <<>>
    ELSE SvgParsed(subpath_str, attrs, parse_path(subpath_str), tol)

\* a Path with the position of its subpath in the element
Tagged(new, j) == [k \in 1..Len(new) |-> [path |-> new[k], sub |-> j]]

RECURSIVE SvgSubpaths(_, _, _, _)
SvgSubpaths(subpath_strings, j, attrs, tol) ==
    IF j > Len(subpath_strings) THEN <<>>
    ELSE Tagged(SvgSubpath(subpath_strings[j], attrs, tol), j)
         \o SvgSubpaths(subpath_strings, j + 1, attrs, tol)

\* lines 159-229, one iteration of the outer loop
SvgIteration(attrs, tol) ==
    IF attrs.d = None \/ attrs.d = Some(<<>>) THEN <<>>
    ELSE SvgSubpaths(_split_path_by_moves(attrs.d[1]), 1, attrs, tol)

(***************************************************************************)
(* DXF entities.  An ezdxf entity is an opaque object: the model gives it  *)
(* the outcome of every accessor the parser calls.  A generator is         *)
(* [pts, err]: it yields pts and then raises when err is set.              *)
(***************************************************************************)
\* A point (x + r cos a, y + r sin a), a in degrees as a fraction; r = 0 for a
\* point given by its coordinates.  cos 0 = 1 and sin 0 = 0 are exact in
\* floating point; no other angle is, so about a centre at the origin a full
\* turn does not come back to the coordinates of angle 0 (sin(2 pi) is
\* -2.4e-16, not 0).
Pt(x, y) == [x |-> x, y |-> y, r |-> 0, a |-> <<0, 1>>]

OnCircle(c, r, num, den) ==
    IF r = 0 THEN Pt(c.x, c.y)
    ELSE IF num = 0 THEN Pt(c.x + r, c.y)
    ELSE [x |-> c.x, y |-> c.y, r |-> r, a |-> Frac(num, den)]

\* (x * scale, y * scale)
ScalePt(p, k) == [x |-> p.x * k, y |-> p.y * k, r |-> p.r * k, a |-> p.a]

ArcMinSteps == 12
CircleSamples == 64
EllipseSamples == 64
SplineSamples == 128

Gen(pts, err) == [pts |-> pts, err |-> err]

\* for x in gen: out.append(x)
Consume(gen) == [exc |-> gen.err, val |-> gen.pts]

\* try: for x in gen: out.append(x) / except Exception: pass
Swallow(gen) == Catch(Consume(gen), gen.pts).val

\* the two ends in the other order
LineFallback_reversed(entity) ==
    IF entity.start = None \/ entity.end = None THEN Raise
    ELSE Ok(<<entity.end[1], entity.start[1]>>)

\* lines 44-46
LineFallback(entity) ==
    IF entity.start = None \/ entity.end = None THEN Raise
    ELSE Ok(<<entity.start[1], entity.end[1]>>)

\* an end angle equal to the start angle is wrapped too
ArcFallback_wraps_equal(entity, tol) ==
    IF \/ entity.center = None \/ entity.radius = None
       \/ entity.start_angle = None \/ entity.end_angle = None
    THEN Raise
    ELSE LET c == entity.center[1]
             r == entity.radius[1]
             a1 == entity.start_angle[1]
             a2 == IF entity.end_angle[1] <= a1 THEN entity.end_angle[1] + 360
                   ELSE entity.end_angle[1]
             sw == a2 - a1
             t == IF FracLess(tol, <<1, 10000>>) THEN <<1, 10000>> ELSE tol
             q == IF sw >= 0 THEN (sw * t[2]) \div t[1]
                  ELSE -((-sw * t[2]) \div t[1])
             n == Max(ArcMinSteps, q)
         IN  Ok([i \in 1..(n + 1) |-> OnCircle(c, r, a1 * n + sw * (i - 1), n)])

\* lines 48-59; tol is a fraction
ArcFallback(entity, tol) ==
    IF \/ entity.center = None \/ entity.radius = None
       \/ entity.start_angle = None \/ entity.end_angle = None
    THEN Raise
    ELSE LET c == entity.center[1]
             r == entity.radius[1]
             a1 == entity.start_angle[1]
             a2 == IF entity.end_angle[1] < a1 THEN entity.end_angle[1] + 360
                   ELSE entity.end_angle[1]
             sw == a2 - a1
             t == IF FracLess(tol, <<1, 10000>>) THEN <<1, 10000>> ELSE tol
             q == IF sw >= 0 THEN (sw * t[2]) \div t[1]
                  ELSE -((-sw * t[2]) \div t[1])
             n == Max(ArcMinSteps, q)
         IN  Ok([i \in 1..(n + 1) |-> OnCircle(c, r, a1 * n + sw * (i - 1), n)])

\* lines 61-68
CircleFallback(entity) ==
    IF entity.center = None \/ entity.radius = None THEN Raise
    ELSE LET c == entity.center[1]
             r == entity.radius[1]
             n == CircleSamples
         IN  Ok([i \in 1..(n + 1) |-> OnCircle(c, r, 360 * (i - 1), n)])

\* lines 70-74: tool.approximate(64) is a generator of the tool
EllipseFallback(entity) ==
    IF entity.tool = None THEN Raise
    ELSE Consume(entity.tool[1].approximate)

\* tool.evaluate(i / n) of a spline tool: the curve runs along the x axis and
\* comes back to its start when the tool is periodic
SplineEvaluate(tool, i) ==
    IF tool.periodic /\ i = SplineSamples THEN Pt(0, 0) ELSE Pt(i, 0)

\* for i in range(n + 1): a sample that raises is skipped
SplineSampling(tool) ==
    LET all == [k \in 1..(SplineSamples + 1) |-> k - 1]
        good == SelectSeq(all, LAMBDA i : i \notin tool.fails)
    IN  [k \in 1..Len(good) |-> SplineEvaluate(tool, good[k])]

\* lines 76-95
SplineFallback(entity) ==
    IF entity.tool = None THEN Raise
    ELSE LET out == SplineSampling(entity.tool[1])
         IN  IF out # <<>> THEN Ok(out)
             ELSE Ok(Swallow(entity.control_points))

\* lines 107-115: a vertex whose location is unreadable is skipped; an error of
\* the iteration itself ends the loop and keeps what was collected
VertexLocations(vertices) ==
    LET readable == SelectSeq(Swallow(vertices), LAMBDA v : v # None)
    IN  [i \in 1..Len(readable) |-> readable[i][1]]

\* lines 97-116
PolylineFallback(entity, tol) ==
    LET out == Swallow(entity.flattening)
    IN  IF out # <<>> THEN Ok(out)
        ELSE Ok(VertexLocations(entity.vertices))

\* lines 43-116, the body of the second try
TypeSpecific(entity, t, tol) ==
    CASE t = "LINE" -> LineFallback(entity)
      [] t = "ARC" -> ArcFallback(entity, tol)
      [] t = "CIRCLE" -> CircleFallback(entity)
      [] t = "ELLIPSE" -> EllipseFallback(entity)
      [] t = "SPLINE" -> SplineFallback(entity)
      [] t \in {"LWPOLYLINE", "POLYLINE"} -> PolylineFallback(entity, tol)
      [] OTHER -> Ok(<<>>)

\* lines 28-35: the first try
PrimaryFlattening(entity, tol) ==
    Catch(Consume(entity.flattening), <<>>)

\* lines 38-41
ReadType(entity) ==
    IF entity.dxftype = "!" THEN Raise ELSE Ok(entity.dxftype)

\* _flatten_entity without the except clause of lines 117-118
_flatten_entity_uncaught(entity, tol) ==
    LET pts == PrimaryFlattening(entity, tol)
    IN  IF pts.val # <<>> THEN pts
        ELSE LET t == ReadType(entity)
             IN  IF t.exc THEN Ok(<<>>)
                 ELSE TypeSpecific(entity, t.val, tol)

\* lines 25-120
_flatten_entity(entity, tol) ==
    LET pts == PrimaryFlattening(entity, tol)
    IN  IF pts.exc THEN pts
        ELSE IF pts.val # <<>> THEN pts
        ELSE LET t == ReadType(entity)
             IN  IF t.exc THEN Ok(<<>>)
                 ELSE Catch(TypeSpecific(entity, t.val, tol), <<>>)

(***************************************************************************)
(* dxf_parser.load_dxf                                                     *)
(***************************************************************************)
\* lines 16-22, in tenths: 254 stands for 25.4 and 10 for 1.0
dxf_unit_scale_to_mm(token) ==
    IF Len(token) = 0 THEN 10
    ELSE IF startswith(lower(strip(token)), <<"i", "n">>) THEN 254
    ELSE 10

\* line 130: tol = 0.25 / scale, a fraction
DxfTolerance(scale) == Frac(5, 2 * scale)

\* closing without appending the first point
ForceClose_noop(pts) == pts

\* lines 155-156, 164-165, 172-173
ForceClose(pts) ==
    IF pts[1] # Last(pts) THEN Append(pts, pts[1]) ELSE pts

\* pts[0] == pts[-1]
\* no path is closed by its geometry
Geometric_never(pts) == FALSE

Geometric(pts) == pts[1] = Last(pts)

\* lines 164-165, 172-173
CloseIf(closed, pts) ==
    [closed |-> closed, pts |-> IF closed THEN ForceClose(pts) ELSE pts]

\* the closure decision with the geometry consulted before the metadata
ClassifyClosed_geometry_first(t, entity, pts) ==
    CASE t \in {"CIRCLE", "ELLIPSE"} -> CloseIf(TRUE, pts)
      [] t \in {"LWPOLYLINE", "POLYLINE"} ->
            CloseIf(Geometric(pts)
                        \/ (entity.flags # None /\ entity.flags[1] % 2 = 1), pts)
      [] t = "SPLINE" ->
            CloseIf(Geometric(pts)
                        \/ (entity.closed # None /\ entity.closed[1]), pts)
      [] OTHER -> [closed |-> Geometric(pts), pts |-> pts]

\* lines 148-176: [closed, pts]
ClassifyClosed(t, entity, pts) ==
    CASE t \in {"CIRCLE", "ELLIPSE"} -> CloseIf(TRUE, pts)
      [] t \in {"LWPOLYLINE", "POLYLINE"} ->
            CloseIf(IF entity.flags = None THEN Geometric(pts)
                    ELSE entity.flags[1] % 2 = 1, pts)
      [] t = "SPLINE" ->
            CloseIf(IF entity.closed = None THEN Geometric(pts)
                    ELSE entity.closed[1], pts)
      [] OTHER -> [closed |-> Geometric(pts), pts |-> pts]

\* the layer as read, without the default
DxfLayer_unguarded(entity) == entity.layer

\* lines 178-181
DxfLayer(entity) ==
    IF entity.layer = None THEN Some("0") ELSE entity.layer

\* lines 183-187
DxfColor(entity) ==
    IF entity.color = None THEN None
    ELSE IF entity.color[1] > 0 THEN Some(ToString(entity.color[1]))
    ELSE None

\* lines 189-200
DxfPath(entity, c, scale) ==
    [points |-> [i \in 1..Len(c.pts) |-> ScalePt(c.pts[i], scale)],
     closed |-> c.closed,
     layer |-> DxfLayer(entity),
     color |-> DxfColor(entity),
     source |-> "dxf"]

\* lines 148-200: the Path of an entity of type t flattened to pts
DxfEmit(entity, t, pts, scale) ==
    <<DxfPath(entity, ClassifyClosed(t, entity, pts), scale)>>

\* the guard of line 145 off by one
DxfFlattened_keeps_one_point(entity, t, pts, scale) ==
    IF pts.exc THEN Raise
    ELSE IF Len(pts.val) < 1 THEN Ok(<<>>)
    ELSE Ok(DxfEmit(entity, t, pts.val, scale))

\* lines 144-200, the type tag read
DxfFlattened(entity, t, pts, scale) ==
    IF pts.exc THEN Raise
    ELSE IF Len(pts.val) < 2 THEN Ok(<<>>)
    ELSE Ok(DxfEmit(entity, t, pts.val, scale))

\* the iteration without the try of lines 139-142
DxfTyped_unguarded(entity, t, scale, tol) ==
    IF t.exc THEN Raise
    ELSE DxfFlattened(entity, t.val, _flatten_entity(entity, tol), scale)

\* lines 139-200
DxfTyped(entity, t, scale, tol) ==
    IF t.exc THEN Ok(<<>>)
    ELSE DxfFlattened(entity, t.val, _flatten_entity(entity, tol), scale)

\* lines 139-200, one iteration of the loop: the Paths it appends
DxfIteration(entity, scale, tol) ==
    DxfTyped(entity, ReadType(entity), scale, tol)

\* insertion at the head of the list
AppendPaths_at_head(list, new) == new \o list

\* paths.append(...)
AppendPaths(list, new) == list \o new

(***************************************************************************)
(* The entities of the model                                               *)
(***************************************************************************)
PA == Pt(0, 0)
PB == Pt(1, 0)

HandledTypes ==
    {"LINE", "ARC", "CIRCLE", "ELLIPSE", "SPLINE", "LWPOLYLINE", "POLYLINE"}

\* flattening(tol): absent or raising at once, empty, one point, an open and a
\* ring polyline, and a generator that raises after two points
WorkingFlattenings ==
    {Gen(<<PA>>, FALSE), Gen(<<PA, PB>>, FALSE), Gen(<<PA, PB, PA>>, FALSE)}
FailingFlattenings ==
    {Gen(<<>>, TRUE), Gen(<<>>, FALSE), Gen(<<PA, PB>>, TRUE)}

\* an object none of whose accessors works
BaseEntity ==
    [dxftype |-> "!", flattening |-> Gen(<<>>, TRUE),
     start |-> None, end |-> None,
     center |-> None, radius |-> None, start_angle |-> None, end_angle |-> None,
     tool |-> None, control_points |-> Gen(<<>>, TRUE),
     vertices |-> Gen(<<>>, TRUE),
     flags |-> None, closed |-> None,
     layer |-> Some("CUT"), color |-> Some(7)]

LineGeoms ==
    {[start |-> None, end |-> None],
     [start |-> Some(PA), end |-> None],
     [start |-> Some(PA), end |-> Some(PB)],
     [start |-> Some(PA), end |-> Some(PA)]}

\* a short arc that wraps past 360, a zero sweep, and unreadable attributes
ArcGeoms ==
    {[center |-> None, radius |-> Some(1), start_angle |-> Some(0), end_angle |-> Some(1)],
     [center |-> Some(PA), radius |-> Some(1), start_angle |-> Some(0), end_angle |-> None],
     [center |-> Some(PA), radius |-> Some(1), start_angle |-> Some(359), end_angle |-> Some(0)],
     [center |-> Some(PA), radius |-> Some(1), start_angle |-> Some(0), end_angle |-> Some(0)]}

CircleGeoms ==
    {[center |-> None, radius |-> Some(1)],
     [center |-> Some(PA), radius |-> Some(1)],
     [center |-> Some(PA), radius |-> Some(0)]}

EllipseGeoms ==
    {[tool |-> None],
     [tool |-> Some([approximate |-> Gen(<<PA, PB>>, FALSE)])],
     [tool |-> Some([approximate |-> Gen(<<PA, PB, PA>>, FALSE)])],
     [tool |-> Some([approximate |-> Gen(<<PA, PB>>, TRUE)])]}

SplineTools ==
    {[fails |-> {}, periodic |-> FALSE],
     [fails |-> {}, periodic |-> TRUE],
     [fails |-> {i \in 0..SplineSamples : i % 2 = 1}, periodic |-> FALSE]}
DeadSplineTool == [fails |-> 0..SplineSamples, periodic |-> FALSE]

SplineGeoms ==
    {[tool |-> None, control_points |-> Gen(<<PA, PB>>, FALSE)]}
    \cup {[tool |-> Some(t), control_points |-> Gen(<<>>, TRUE)] : t \in SplineTools}
    \cup {[tool |-> Some(DeadSplineTool), control_points |-> g] :
            g \in {Gen(<<>>, TRUE), Gen(<<PA, PB>>, FALSE), Gen(<<PA, PB>>, TRUE)}}

PolylineGeoms ==
    {[vertices |-> g] :
        g \in {Gen(<<>>, TRUE),
               Gen(<<Some(PA), Some(PB)>>, FALSE),
               Gen(<<Some(PA), None, Some(PB)>>, FALSE),
               Gen(<<Some(PA), Some(PB)>>, TRUE)}}

FlagValues == {None, Some(1), Some(2)}
ClosedValues == {None, Some(TRUE), Some(FALSE)}

Metas ==
    {[layer |-> Some("CUT"), color |-> Some(7)],
     [layer |-> None, color |-> Some(0)],
     [layer |-> Some("CUT"), color |-> None]}

Raising == Gen(<<>>, TRUE)
Plain == Gen(<<PA, PB>>, FALSE)

\* The type-specific attributes vary where the code reaches them, that is when
\* the first flattening raises; the other failures of the first flattening go
\* with each of them that leaves the fallback something to do; the closure
\* attributes (extras) vary on the entities whose flattening works; layer and
\* colour vary on the plain entity.  One polyline has a flattening that raises
\* part-way and vertices that cannot be read.
OfType(t, geoms, working, extras) ==
    {g @@ [dxftype |-> t, flattening |-> Raising] @@ BaseEntity : g \in geoms}
    \cup {g @@ [dxftype |-> t, flattening |-> f] @@ BaseEntity :
            f \in FailingFlattenings, g \in working}
    \cup {x @@ [dxftype |-> t, flattening |-> f] @@ BaseEntity :
            f \in WorkingFlattenings, x \in extras}
    \cup {m @@ [dxftype |-> t, flattening |-> Plain] @@ BaseEntity : m \in Metas}

NoGeoms == {[start |-> None]}
NoExtras == {[flags |-> None]}

Entities ==
    OfType("!", NoGeoms, NoGeoms, NoExtras)
    \cup OfType("HATCH", NoGeoms, NoGeoms, NoExtras)
    \cup OfType("LINE", LineGeoms,
                {[start |-> Some(PA), end |-> Some(PB)]}, NoExtras)
    \cup OfType("ARC", ArcGeoms,
                {[center |-> Some(PA), radius |-> Some(1),
                  start_angle |-> Some(359), end_angle |-> Some(0)]}, NoExtras)
    \cup OfType("CIRCLE", CircleGeoms,
                {[center |-> Some(PA), radius |-> Some(1)]}, NoExtras)
    \cup OfType("ELLIPSE", EllipseGeoms,
                {[tool |-> Some([approximate |-> Gen(<<PA, PB>>, FALSE)])]},
                NoExtras)
    \cup OfType("SPLINE", SplineGeoms,
                {[tool |-> Some([fails |-> {}, periodic |-> FALSE])]},
                {[closed |-> c] : c \in ClosedValues})
    \cup OfType("LWPOLYLINE", PolylineGeoms,
                {[vertices |-> Gen(<<Some(PA), Some(PB)>>, FALSE)]},
                {[flags |-> c] : c \in FlagValues})
    \cup OfType("POLYLINE", PolylineGeoms,
                {[vertices |-> Gen(<<Some(PA), Some(PB)>>, FALSE)]},
                {[flags |-> c] : c \in FlagValues})
    \cup {[vertices |-> Gen(<<>>, TRUE)]
            @@ [dxftype |-> "LWPOLYLINE", flattening |-> Gen(<<PA, PB>>, TRUE)]
            @@ BaseEntity}

\* 0.25 / scale for the two scales of the DXF loader
Tolerances == {<<1, 4>>, <<5, 508>>}

(***************************************************************************)
(* The markup items of the model.  A path element is the attributes the    *)
(* attribute pattern finds in it; any other tag is passed over.            *)
(***************************************************************************)
SP == " "
ChunkOpen == <<"M", "0,0", SP, "L", "0.2,0">>
ChunkZ == <<"M", "0,0", SP, "L", "0.2,0", SP, "Z">>
ChunkRing == <<"M", "0,0", SP, "L", "0.2,0", SP, "L", "0,0">>
ChunkMoveOnly == <<"M", "0,0">>
ChunkBad == <<"M", "0,0", SP, "L">>
ChunkZero == <<"M", "0,0", SP, "L", "0,0">>
ChunkLower == <<"m", "0.2,0", SP, "L", "0,0", SP, "z">>
ChunkNoMove == <<"L", "0.2,0">>

Chunks ==
    {ChunkOpen, ChunkZ, ChunkRing, ChunkMoveOnly, ChunkBad, ChunkZero,
     ChunkLower, ChunkNoMove}

\* "M0,0 L10,0 M20,0 L30,0 Z"
CompoundExample ==
    <<"M", "0,0", SP, "L", "10,0", SP, "M", "20,0", SP, "L", "30,0", SP, "Z">>

DStrings ==
    Chunks
    \cup {a \o <<SP>> \o b : a \in Chunks, b \in {ChunkOpen, ChunkZ, ChunkBad}}
    \cup {<<SP, SP>>, CompoundExample}
    \* "M0,0 L0.2,0 L0.0000001,0": a ring that ends 1e-7 short of its start
    \cup {<<"M", "0,0", SP, "L", "0.2,0", SP, "L", "0.0000001,0">>}

PathElement(d, id, stroke) ==
    [tag |-> "path", d |-> d, id |-> id, stroke |-> stroke]

MarkupItems ==
    {PathElement(Some(d), None, None) : d \in DStrings}
    \cup {PathElement(Some(ChunkOpen \o <<SP>> \o ChunkZ), a[1], a[2]) :
            a \in {<<Some("a"), Some("red")>>, <<None, Some("none")>>,
                   <<Some("a"), Some("")>>}}
    \cup {PathElement(None, Some("a"), None),
          PathElement(Some(<<>>), None, None),
          [tag |-> "rect", d |-> None, id |-> None, stroke |-> None]}

Metric == <<"m", "e", "t", "r", "i", "c">>
Imperial == <<"i", "m", "p", "e", "r", "i", "a", "l">>
\* a stored value that is neither of the two modes
Meters == <<"m", "e", "t", "e", "r", "s">>

UnitTokens == {<<"m", "m">>, <<" ", "I", "n", "c", "h">>}

(***************************************************************************)
(* The loaders.  The outcome of the imports is fixed when the package is   *)
(* imported; the model draws it when the loader is called.                 *)
(***************************************************************************)
ImportOutcomes == {"ok", "ImportError", "error"}

NoCall == [loader |-> "none", parser |-> "ok", qt |-> TRUE, readable |-> TRUE]

\* ezdxf.readfile(filename) and doc.modelspace(); open(filepath).read()
OpenDocument(readable) == IF readable THEN Ok(<<>>) ELSE Raise

\* the opening of the document without the try of lines 132-136
DxfBegin_uncaught(imp, readable) ==
    IF imp = "error" THEN [exc |-> FALSE, done |-> TRUE]
    ELSE IF imp = "ImportError" THEN [exc |-> FALSE, done |-> TRUE]
    ELSE LET doc == OpenDocument(readable)
         IN  [exc |-> doc.exc, done |-> FALSE]

\* dxf_parser lines 8-13, 124-136 and the package's fallback (lines 12-19 of
\* parsers/__init__.py): [exc, done], done when the call has returned []
DxfBegin(imp, readable) ==
    IF imp = "error" THEN [exc |-> FALSE, done |-> TRUE]
    ELSE IF imp = "ImportError" THEN [exc |-> FALSE, done |-> TRUE]
    ELSE LET doc == Catch(OpenDocument(readable), <<"return">>)
         IN  [exc |-> doc.exc, done |-> doc.val # <<>>]

\* svg_parser lines 23-29, 133-143 and the package's fallback (lines 22-29)
SvgBegin(imp, readable) ==
    IF imp = "error" THEN [exc |-> FALSE, done |-> TRUE]
    ELSE IF imp = "ImportError" THEN [exc |-> FALSE, done |-> TRUE]
    ELSE LET text == Catch(OpenDocument(readable), <<"return">>)
         IN  [exc |-> text.exc, done |-> text.val # <<>>]

\* svg_parser lines 149-155
CurrentUnits(has_qt, stored) ==
    IF has_qt THEN (IF stored = None THEN Some(Metric) ELSE stored)
    ELSE None

\* a list that outlives the call
NewPaths_shared(earlier) == earlier

\* paths: List[Dict] = [] and result = []: the list a call builds is created
\* by the call, whatever list an earlier call built
NewPaths(earlier) == <<>>

\* The outcome of an iteration depends on the item and on the call's options
\* alone; it is tabulated once.
DxfOutcome ==
    [e \in Entities, u \in UnitTokens |->
        DxfIteration(e, dxf_unit_scale_to_mm(u),
                     DxfTolerance(dxf_unit_scale_to_mm(u)))]

SvgOutcome ==
    [item \in MarkupItems, tol \in {SvgTolerance(Some(Metric)),
                                     SvgTolerance(Some(Imperial))} |->
        SvgIteration(item, tol)]

\* The state of a loop is [exc, paths, srcs]: whether an exception has left it,
\* the list built so far, and for each Path the item and subpath it is from.
Building(list) == [exc |-> FALSE, paths |-> list, srcs |-> <<>>]
Returned == [exc |-> FALSE, paths |-> <<>>, srcs |-> <<>>]
Thrown == [exc |-> TRUE, paths |-> <<>>, srcs |-> <<>>]

\* the Paths of tagged Paths, and their places in the file as item i
PathsOf(tagged) == [k \in 1..Len(tagged) |-> tagged[k].path]
PlacesOf(tagged, i) ==
    [k \in 1..Len(tagged) |-> [item |-> i, sub |-> tagged[k].sub]]

Extend(acc, tagged, i) ==
    [exc |-> FALSE,
     paths |-> AppendPaths(acc.paths, PathsOf(tagged)),
     srcs |-> AppendPaths(acc.srcs, PlacesOf(tagged, i))]

DxfAppend(acc, r, i) ==
    IF r.exc THEN [acc EXCEPT !.exc = TRUE]
    ELSE Extend(acc, Tagged(r.val, 1), i)

\* dxf_parser lines 138-200: the i-th iteration of the loop
DxfStep(acc, e, u, i) == DxfAppend(acc, DxfOutcome[e, u], i)

\* svg_parser lines 159-229: the i-th match of the path pattern; the pattern
\* passes over every other tag
SvgStep(acc, item, tol, i) ==
    IF item.tag # "path" THEN acc
    ELSE Extend(acc, SvgOutcome[item, tol], i)

\* the loop goes on from acc, or the exception leaves the loader
Continue(acc) ==
    /\ paths' = acc.paths
    /\ srcs' = acc.srcs
    /\ raised' = acc.exc
    /\ pc' = IF acc.exc THEN "done" ELSE pc

Init ==
    /\ pc = "idle"
    /\ call = NoCall
    /\ q_units = None
    /\ units = <<>>
    /\ tol_mm = 0
    /\ paths = <<>>
    /\ consumed = 0
    /\ cur = None
    /\ srcs = <<>>
    /\ ret = None
    /\ raised = FALSE
    /\ d_string = <<>>
    /\ subpaths = <<>>
    /\ fe_entity = BaseEntity
    /\ fe_tol = <<1, 4>>
    /\ fe_ret = Ok(<<>>)
    /\ tw_file = [loader |-> "none", items |-> <<>>]
    /\ tw_first = Returned
    /\ tw_mode = None
    /\ tw_second = Returned
    /\ tw_dropped = 0

\* the call reaches its loop
Entered(b) == ~b.exc /\ ~b.done

\* the call has raised, has returned [], or enters its loop with a new list
Begun(b, loop) ==
    IF b.exc
    THEN /\ pc' = "done"
         /\ raised' = TRUE
         /\ UNCHANGED <<ret, paths>>
    ELSE IF b.done
    THEN /\ pc' = "done"
         /\ ret' = Some(<<>>)
         /\ UNCHANGED <<raised, paths>>
    ELSE /\ pc' = loop
         /\ paths' = NewPaths(paths)
         /\ UNCHANGED <<ret, raised>>

\* load_dxf(filename, units), up to the loop
CallLoadDxf(imp, readable, u) ==
    /\ pc = "idle"
    /\ call' = [loader |-> "dxf", parser |-> imp, qt |-> TRUE,
                readable |-> readable]
    /\ units' = u
    /\ Begun(DxfBegin(imp, readable), "dxf_loop")
    /\ UNCHANGED <<q_units, tol_mm, consumed, cur, srcs, pure_vars, twice_vars>>

\* one iteration of the loop of load_dxf
DxfEntity(e) ==
    /\ pc = "dxf_loop"
    /\ consumed < MaxItems
    /\ Continue(DxfStep([exc |-> FALSE, paths |-> paths, srcs |-> srcs],
                        e, units, consumed + 1))
    /\ consumed' = consumed + 1
    /\ cur' = Some(e)
    /\ UNCHANGED <<call, q_units, units, tol_mm, ret, pure_vars, twice_vars>>

\* return paths
DxfReturn ==
    /\ pc = "dxf_loop"
    /\ pc' = "done"
    /\ ret' = Some(paths)
    /\ UNCHANGED <<call, q_units, units, tol_mm, paths, consumed, cur, srcs,
                   raised, pure_vars, twice_vars>>

\* load_svg(filepath), up to the loop
CallLoadSvg(imp, has_qt, stored, readable) ==
    /\ pc = "idle"
    /\ call' = [loader |-> "svg", parser |-> imp, qt |-> has_qt,
                readable |-> readable]
    /\ q_units' = stored
    /\ Begun(SvgBegin(imp, readable), "svg_loop")
    /\ tol_mm' = IF Entered(SvgBegin(imp, readable))
                 THEN SvgTolerance(CurrentUnits(has_qt, stored))
                 ELSE tol_mm
    /\ UNCHANGED <<units, consumed, cur, srcs, pure_vars, twice_vars>>

\* one match of the path pattern and its iteration of the loop
SvgItem(item) ==
    /\ pc = "svg_loop"
    /\ consumed < MaxItems
    /\ Continue(SvgStep([exc |-> FALSE, paths |-> paths, srcs |-> srcs],
                        item, tol_mm, consumed + 1))
    /\ consumed' = consumed + 1
    /\ cur' = Some(item)
    /\ UNCHANGED <<call, q_units, units, tol_mm, ret, pure_vars, twice_vars>>

\* return result
SvgReturn ==
    /\ pc = "svg_loop"
    /\ pc' = "done"
    /\ ret' = Some(paths)
    /\ UNCHANGED <<call, q_units, units, tol_mm, paths, consumed, cur, srcs,
                   raised, pure_vars, twice_vars>>

Next ==
    \/ \E imp \in ImportOutcomes, readable \in BOOLEAN, u \in UnitTokens :
            CallLoadDxf(imp, readable, u)
    \/ \E e \in Entities : DxfEntity(e)
    \/ DxfReturn
    \/ \E imp \in ImportOutcomes, has_qt \in BOOLEAN,
          stored \in {None, Some(Metric), Some(Imperial), Some(Meters)},
          readable \in BOOLEAN :
            CallLoadSvg(imp, has_qt, stored, readable)
    \/ \E item \in MarkupItems : SvgItem(item)
    \/ SvgReturn

Spec == Init /\ [][Next]_vars

(***************************************************************************)
(* A call as a whole, and the same file loaded twice                       *)
(***************************************************************************)
\* the outcome of a call: what its opening decides, else what its loop gives
Proceed(b, looped) ==
    IF b.exc THEN Thrown ELSE IF b.done THEN Returned ELSE looped

RECURSIVE DxfLoop(_, _, _, _)
DxfLoop(doc, u, i, acc) ==
    IF i > Len(doc) \/ acc.exc THEN acc
    ELSE DxfLoop(doc, u, i + 1, DxfStep(acc, doc[i], u, i))

\* load_dxf(filename, units), lines 123-202; earlier is the list the call
\* before this one built
load_dxf(c, doc, u, earlier) ==
    Proceed(DxfBegin(c.parser, c.readable),
            DxfLoop(doc, u, 1, Building(NewPaths(earlier))))

RECURSIVE SvgLoop(_, _, _, _)
SvgLoop(file, tol, i, acc) ==
    IF i > Len(file) THEN acc
    ELSE SvgLoop(file, tol, i + 1, SvgStep(acc, file[i], tol, i))

\* load_svg(filepath), lines 120-231; stored is the "units" value of QSettings
\* when the call is made
load_svg(c, file, stored, earlier) ==
    Proceed(SvgBegin(c.parser, c.readable),
            SvgLoop(file, SvgTolerance(CurrentUnits(c.qt, stored)), 1,
                    Building(NewPaths(earlier))))

Load(c, f, u, stored, earlier) ==
    IF f.loader = "dxf" THEN load_dxf(c, f.items, u, earlier)
    ELSE load_svg(c, f.items, stored, earlier)

\* An entity whose processing fails: its type tag is unreadable, one of the
\* accessors the parser calls on it raises, or it flattens to fewer than 2
\* points.
AccessorRaises(e) ==
    \/ e.dxftype = "!"
    \/ e.flattening.err
    \/ e.layer = None
    \/ e.color = None
    \/ e.dxftype \in {"LWPOLYLINE", "POLYLINE"} /\ e.flags = None
    \/ e.dxftype = "SPLINE" /\ e.closed = None

ProcessingFails(e, tol) ==
    \/ AccessorRaises(e)
    \/ Len(_flatten_entity(e, tol).val) < 2

\* the sequence without its k-th element
Without(seq, k) == SubSeq(seq, 1, k - 1) \o SubSeq(seq, k + 1, Len(seq))

\* The documents loaded twice are made of an entity of unreadable type, lines
\* (healthy, of unreadable layer or colour, of one point, with and without a
\* fallback), circles sampled by the fallback or not at all, polylines and
\* splines with and without closure metadata.
DefaultMeta(e) == e.layer = Some("CUT") /\ e.color = Some(7)

TwiceEntities ==
    {e \in Entities :
        \/ e.dxftype = "!" /\ e.flattening = Plain /\ DefaultMeta(e)
        \/ /\ e.dxftype = "LINE"
           /\ e.flattening \in {Raising, Plain, Gen(<<PA>>, FALSE)}
           /\ e.flattening = Raising => (e.start = None \/ e.end = Some(PB))
        \/ e.dxftype = "CIRCLE" /\ e.flattening = Raising /\ e.radius = Some(1)
        \/ /\ e.dxftype \in {"LWPOLYLINE", "SPLINE"}
           /\ e.flattening = Plain
           /\ DefaultMeta(e)}

TwiceItems ==
    {PathElement(Some(d), None, None) :
        d \in {ChunkOpen, ChunkZ, ChunkBad, ChunkOpen \o <<SP>> \o ChunkZ}}
    \cup {PathElement(Some(ChunkOpen \o <<SP>> \o ChunkZ), Some("a"), Some("red")),
          PathElement(None, Some("a"), None)}

RECURSIVE FilesUpTo(_, _)
FilesUpTo(A, k) ==
    IF k = 0 THEN {<<>>}
    ELSE LET shorter == FilesUpTo(A, k - 1)
         IN  shorter \cup {Append(s, a) : s \in shorter, a \in A}

TwiceFiles ==
    {[loader |-> "dxf", items |-> doc] : doc \in FilesUpTo(TwiceEntities, MaxTwice)}
    \cup {[loader |-> "svg", items |-> f] : f \in FilesUpTo(TwiceItems, MaxTwice)}

IdleSingle ==
    /\ tol_mm = 0
    /\ paths = <<>>
    /\ consumed = 0
    /\ cur = None
    /\ srcs = <<>>
    /\ ret = None
    /\ raised = FALSE

IdlePure ==
    /\ d_string = <<>>
    /\ subpaths = <<>>
    /\ fe_entity = BaseEntity
    /\ fe_tol = <<1, 4>>
    /\ fe_ret = Ok(<<>>)

IdleTwice ==
    /\ tw_file = [loader |-> "none", items |-> <<>>]
    /\ tw_first = Returned
    /\ tw_mode = None
    /\ tw_second = Returned
    /\ tw_dropped = 0

TwiceInit ==
    /\ pc = "twice"
    /\ tw_file \in TwiceFiles
    /\ \E imp \in {"ok", "ImportError"}, readable \in BOOLEAN, has_qt \in BOOLEAN :
            /\ tw_file.loader = "dxf" => has_qt
            /\ call = [loader |-> tw_file.loader, parser |-> imp, qt |-> has_qt,
                       readable |-> readable]
    /\ units \in (IF tw_file.loader = "dxf" THEN UnitTokens ELSE {<<>>})
    /\ q_units \in (IF tw_file.loader = "svg"
                    THEN {None, Some(Metric), Some(Imperial)} ELSE {None})
    /\ tw_first = Returned
    /\ tw_mode = None
    /\ tw_second = Returned
    /\ tw_dropped = 0
    /\ IdleSingle
    /\ IdlePure

\* the first call on the file
FirstLoad ==
    /\ pc = "twice"
    /\ tw_first' = Load(call, tw_file, units, q_units, <<>>)
    /\ tw_mode' = q_units
    /\ pc' = "twice_between"
    /\ UNCHANGED <<tw_file, tw_second, tw_dropped, load_vars, pure_vars>>

\* the user changes the units of the application between the two calls
SettingsChange(stored) ==
    /\ pc = "twice_between"
    /\ tw_file.loader = "svg"
    /\ q_units = tw_mode
    /\ stored # q_units
    /\ q_units' = stored
    /\ UNCHANGED <<pc, call, units, tol_mm, paths, consumed, cur, srcs, ret,
                   raised, pure_vars, twice_vars>>

\* the second call on the same file
SecondLoad ==
    /\ pc = "twice_between"
    /\ tw_second' = Load(call, tw_file, units, q_units, tw_first.paths)
    /\ pc' = "twice_done"
    /\ UNCHANGED <<tw_file, tw_first, tw_mode, tw_dropped, load_vars, pure_vars>>

\* the second call on the document without its k-th entity, a failing one
SecondLoadWithout(k) ==
    /\ pc = "twice_between"
    /\ tw_file.loader = "dxf"
    /\ k \in 1..Len(tw_file.items)
    /\ ProcessingFails(tw_file.items[k],
                       DxfTolerance(dxf_unit_scale_to_mm(units)))
    /\ tw_second' = Load(call, [tw_file EXCEPT !.items = Without(@, k)], units,
                         q_units, tw_first.paths)
    /\ tw_dropped' = k
    /\ pc' = "twice_done"
    /\ UNCHANGED <<tw_file, tw_first, tw_mode, load_vars, pure_vars>>

TwiceNext ==
    \/ FirstLoad
    \/ \E stored \in {Some(Metric), Some(Imperial)} : SettingsChange(stored)
    \/ SecondLoad
    \/ \E k \in 1..MaxTwice : SecondLoadWithout(k)

SpecTwice == TwiceInit /\ [][TwiceNext]_vars

(***************************************************************************)
(* The splitter on its own: every path-data string up to MaxLen symbols    *)
(***************************************************************************)
SplitAlphabet == {"M", "m", "L", "Z", " ", "1,1"}

SplitInit ==
    /\ pc = "split"
    /\ d_string \in FilesUpTo(SplitAlphabet, MaxLen)
    /\ subpaths = <<>>
    /\ fe_entity = BaseEntity
    /\ fe_tol = <<1, 4>>
    /\ fe_ret = Ok(<<>>)
    /\ call = NoCall
    /\ q_units = None
    /\ units = <<>>
    /\ IdleSingle
    /\ IdleTwice

SplitCall ==
    /\ pc = "split"
    /\ subpaths' = _split_path_by_moves(d_string)
    /\ pc' = "split_done"
    /\ UNCHANGED <<d_string, fe_entity, fe_tol, fe_ret, load_vars, twice_vars>>

SplitNext == SplitCall

SpecSplit == SplitInit /\ [][SplitNext]_vars

(***************************************************************************)
(* _flatten_entity on its own: every entity of the model, both tolerances  *)
(***************************************************************************)
FlattenInit ==
    /\ pc = "flatten"
    /\ fe_entity \in Entities
    /\ fe_tol \in Tolerances
    /\ fe_ret = Ok(<<>>)
    /\ d_string = <<>>
    /\ subpaths = <<>>
    /\ call = NoCall
    /\ q_units = None
    /\ units = <<>>
    /\ IdleSingle
    /\ IdleTwice

FlattenCall ==
    /\ pc = "flatten"
    /\ fe_ret' = _flatten_entity(fe_entity, fe_tol)
    /\ pc' = "flatten_done"
    /\ UNCHANGED <<fe_entity, fe_tol, d_string, subpaths, load_vars, twice_vars>>

FlattenNext == FlattenCall

SpecFlatten == FlattenInit /\ [][FlattenNext]_vars

(***************************************************************************)
(* One iteration of the loop of load_dxf on its own: every entity of the   *)
(* model under the two unit tokens, and the entities of the worked         *)
(* examples under every unit token                                         *)
(***************************************************************************)
UnitWords ==
    {<<>>,
     <<"m", "m">>,
     <<"m", "i", "l", "l", "i", "m", "e", "t", "e", "r">>,
     <<"m", "i", "l", "l", "i", "m", "e", "t", "e", "r", "s">>,
     <<"i", "n", "c", "h">>,
     <<"i", "n", "c", "h", "e", "s">>,
     <<"i", "n">>,
     <<"c", "m">>,
     <<"c", "e", "n", "t", "i", "m", "e", "t", "e", "r">>,
     <<"c", "e", "n", "t", "i", "m", "e", "t", "e", "r", "s">>,
     <<"p", "x">>,
     <<"p", "i", "x", "e", "l">>,
     <<"p", "i", "x", "e", "l", "s">>,
     <<"f", "t">>,
     <<"i", "n", "k">>}

\* each word as written, in capitals, capitalised, and between spaces
TokenUniverse ==
    LET Capitalised(s) == IF s = <<>> THEN s ELSE upper(<<s[1]>>) \o Tail(s)
        Padded(s) == <<" ">> \o s \o <<" ">>
    IN  UNION {{w, upper(w), Capitalised(w), Padded(w)} : w \in UnitWords}

\* a line from (0,0) to (10,0), a circle of centre (0,0) and radius 10, an arc
\* of centre (0,0) and radius 5 from 0 to 90 degrees, none of which has a
\* working flattening
ExampleLine ==
    [start |-> Some(Pt(0, 0)), end |-> Some(Pt(10, 0))]
        @@ [dxftype |-> "LINE", flattening |-> Raising] @@ BaseEntity

ExampleCircle ==
    [center |-> Some(Pt(0, 0)), radius |-> Some(10)]
        @@ [dxftype |-> "CIRCLE", flattening |-> Raising] @@ BaseEntity

ExampleArc ==
    [center |-> Some(Pt(0, 0)), radius |-> Some(5),
     start_angle |-> Some(0), end_angle |-> Some(90)]
        @@ [dxftype |-> "ARC", flattening |-> Raising] @@ BaseEntity

\* and arcs that wrap past 360, have no sweep, or end more than a turn below
\* their start
ExampleEntities ==
    {ExampleLine, ExampleCircle, ExampleArc}
        \cup {[ExampleArc EXCEPT !.start_angle = Some(a[1]),
                                 !.end_angle = Some(a[2])] :
                a \in {<<350, 10>>, <<0, 0>>, <<720, 0>>}}

EntityInit ==
    /\ pc = "entity"
    /\ \/ fe_entity \in Entities /\ units \in UnitTokens
       \/ fe_entity \in ExampleEntities /\ units \in TokenUniverse
    /\ fe_tol = DxfTolerance(dxf_unit_scale_to_mm(units))
    /\ fe_ret = Ok(<<>>)
    /\ d_string = <<>>
    /\ subpaths = <<>>
    /\ call = NoCall
    /\ q_units = None
    /\ IdleSingle
    /\ IdleTwice

EntityCall ==
    /\ pc = "entity"
    /\ fe_ret' = DxfIteration(fe_entity, dxf_unit_scale_to_mm(units), fe_tol)
    /\ pc' = "entity_done"
    /\ UNCHANGED <<fe_entity, fe_tol, d_string, subpaths, load_vars, twice_vars>>

EntityNext == EntityCall

SpecEntity == EntityInit /\ [][EntityNext]_vars

(***************************************************************************)
(* Properties                                                              *)
(***************************************************************************)
\* the tolerance of the running call of load_dxf
CurTol == DxfTolerance(dxf_unit_scale_to_mm(units))

\* a loop of the running call has consumed an item
InLoop(loader) == call.loader = loader /\ cur # None

\* the Paths of the list that come from the last item consumed
FromCur == SelectSeq([k \in 1..Len(srcs) |-> k],
                     LAMBDA k : srcs[k].item = consumed)

AllPaths(list, P(_)) == \A k \in 1..Len(list) : P(list[k])

\* C1: every Path of the list a loader builds and of the list it returns has
\* at least 2 points, and an entity that flattens to 0 or 1 points leaves no
\* Path in the list.
C1_AtLeastTwoPoints ==
    /\ AllPaths(paths, LAMBDA p : Len(p.points) >= 2)
    /\ ret # None => AllPaths(ret[1], LAMBDA p : Len(p.points) >= 2)
    /\ (InLoop("dxf") /\ Len(_flatten_entity(cur[1], CurTol).val) < 2)
            => FromCur = <<>>

\* a one-point entity was dropped after another entity gave a Path
C1_Witness ==
    /\ InLoop("dxf")
    /\ consumed = 2
    /\ Len(_flatten_entity(cur[1], CurTol).val) = 1
    /\ Len(paths) = 1
    /\ FromCur = <<>>

\* C2: in every Path with closed = true, of the list a loader builds and of
\* the list it returns, the first and the last point are equal.
C2_ClosedEndsMeet ==
    /\ AllPaths(paths, LAMBDA p : p.closed => p.points[1] = Last(p.points))
    /\ ret # None =>
            AllPaths(ret[1], LAMBDA p : p.closed => p.points[1] = Last(p.points))

\* a closed Path that has one point more than the entity flattened to
C2_Witness ==
    /\ InLoop("dxf")
    /\ FromCur # <<>>
    /\ Last(paths).closed
    /\ Len(Last(paths).points) = Len(_flatten_entity(cur[1], CurTol).val) + 1

\* the Paths of an outcome that are not from its k-th item
NotFrom(o, k) ==
    LET keep == SelectSeq([i \in 1..Len(o.paths) |-> i],
                          LAMBDA i : o.srcs[i].item # k)
    IN  [j \in 1..Len(keep) |-> o.paths[keep[j]]]

\* C3: when the second document is the first one without a failing entity,
\* neither load is aborted and the second load returns the Paths the first
\* load returned for the other entities, in the same order.
C3_SiblingsUnaffected ==
    (pc = "twice_done" /\ tw_dropped > 0) =>
        /\ ~tw_first.exc
        /\ ~tw_second.exc
        /\ tw_second.paths = NotFrom(tw_first, tw_dropped)

\* the entity left out has an unreadable type tag or raises in its flattening
\* and a sibling gave a Path
C3_Witness ==
    /\ pc = "twice_done"
    /\ tw_dropped > 0
    /\ call.parser = "ok" /\ call.readable
    /\ LET e == tw_file.items[tw_dropped]
       IN  e.dxftype = "!" \/ e.flattening.err
    /\ Len(tw_second.paths) = 1

\* C4: when the document cannot be opened or the parsing library is missing,
\* the loader returns the empty list and raises nothing.
C4_EmptyOnUnreadable ==
    (pc # "idle" /\ call.loader \in {"dxf", "svg"}
                 /\ (call.parser # "ok" \/ ~call.readable)) =>
        /\ pc = "done"
        /\ ret = Some(<<>>)
        /\ ~raised

\* load_dxf with its library imported was given a file it cannot open
C4_Witness ==
    /\ pc = "done"
    /\ call.loader = "dxf"
    /\ call.parser = "ok"
    /\ ~call.readable
    /\ ret = Some(<<>>)

\* the first flattening raises or yields nothing
PrimaryFails(e) == e.flattening.err \/ e.flattening.pts = <<>>

\* the type tag is readable and is none of the handled kinds
Unhandled(e) == e.dxftype # "!" /\ e.dxftype \notin HandledTypes

\* an accessor of the entity's own branch raises
TypeTierRaises(e) ==
    \/ e.dxftype = "LINE" /\ (e.start = None \/ e.end = None)
    \/ e.dxftype = "ARC" /\ (\/ e.center = None \/ e.radius = None
                             \/ e.start_angle = None \/ e.end_angle = None)
    \/ e.dxftype = "CIRCLE" /\ (e.center = None \/ e.radius = None)
    \/ e.dxftype = "ELLIPSE" /\ (e.tool = None \/ e.tool[1].approximate.err)
    \/ e.dxftype = "SPLINE" /\ e.tool = None

SameUnitsMode ==
    SvgTolerance(CurrentUnits(call.qt, tw_mode))
        = SvgTolerance(CurrentUnits(call.qt, q_units))

EndsWith(list, tail) ==
    /\ Len(tail) <= Len(list)
    /\ SubSeq(list, Len(list) - Len(tail) + 1, Len(list)) = tail

SrcBefore(a, b) == a.item < b.item \/ (a.item = b.item /\ a.sub < b.sub)

\* what the last iteration appended, as the loop body computes it
CurOutcome ==
    IF call.loader = "dxf" THEN DxfOutcome[cur[1], units].val
    ELSE IF cur[1].tag = "path" THEN PathsOf(SvgOutcome[cur[1], tol_mm])
    ELSE <<>>

\* C7: the Paths of the list come from items and subpaths in strictly
\* increasing order (so at most one Path per entity and per subpath), and the
\* Paths of the last item are the last of the list.
C7_SourceOrder ==
    /\ Len(srcs) = Len(paths)
    /\ \A k \in 1..(Len(srcs) - 1) : SrcBefore(srcs[k], srcs[k + 1])
    /\ call.loader = "dxf" => \A k \in 1..Len(srcs) : srcs[k].sub = 1
    /\ (cur # None /\ ~raised) => EndsWith(paths, CurOutcome)

\* two subpaths of a first element and then a Path of a second element
C7_Witness ==
    /\ InLoop("svg")
    /\ Len(srcs) = 3
    /\ srcs[1] = [item |-> 1, sub |-> 1]
    /\ srcs[2] = [item |-> 1, sub |-> 2]
    /\ srcs[3].item = 2
    /\ paths[2] # paths[3]

IsPolyline(e) == e.dxftype \in {"LWPOLYLINE", "POLYLINE"}

\* C8: the Path of a polyline whose flags are readable has closed = bit 0 of
\* the flags, the Path of a spline whose closed attribute is readable has
\* closed = that attribute; equality of the first and last flattened point
\* decides only when the flag or attribute is unreadable.
C8_MetadataFirst ==
    (InLoop("dxf") /\ FromCur # <<>>) =>
        /\ (IsPolyline(cur[1]) /\ cur[1].flags # None) =>
                Last(paths).closed = (cur[1].flags[1] % 2 = 1)
        /\ (cur[1].dxftype = "SPLINE" /\ cur[1].closed # None) =>
                Last(paths).closed = cur[1].closed[1]
        /\ ((IsPolyline(cur[1]) /\ cur[1].flags = None)
            \/ (cur[1].dxftype = "SPLINE" /\ cur[1].closed = None)) =>
                Last(paths).closed = Geometric(_flatten_entity(cur[1], CurTol).val)

\* a polyline that comes back to its start and whose flags have bit 0 clear
C8_Witness ==
    /\ InLoop("dxf")
    /\ FromCur # <<>>
    /\ IsPolyline(cur[1])
    /\ cur[1].flags = Some(2)
    /\ Last(paths).points[1] = Last(Last(paths).points)
    /\ ~Last(paths).closed

BeginsWithMove(f) == Len(f) > 0 /\ f[1] \in MoveCommands

NoSecondMove(f) == \A j \in 2..Len(f) : f[j] \notin MoveCommands

\* the claim as the specification states it: every fragment begins with a move
\* command, none is empty or blank, none holds a second move command
C9_AsStated ==
    pc = "split_done" =>
        \A i \in 1..Len(subpaths) :
            /\ BeginsWithMove(subpaths[i])
            /\ Len(strip(subpaths[i])) > 0
            /\ NoSecondMove(subpaths[i])

\* C9: no fragment is empty or blank, none holds a move command after its
\* first symbol, every fragment after the first begins with a move command,
\* and the first does when the string, leading whitespace apart, does.
C9_Fragments ==
    pc = "split_done" =>
        \A i \in 1..Len(subpaths) :
            /\ Len(strip(subpaths[i])) > 0
            /\ NoSecondMove(subpaths[i])
            /\ (i > 1 \/ BeginsWithMove(strip(d_string))) =>
                    BeginsWithMove(subpaths[i])

\* a string cut in two whose first fragment has no move command
C9_Witness ==
    /\ pc = "split_done"
    /\ Len(subpaths) = 2
    /\ ~BeginsWithMove(subpaths[1])
    /\ BeginsWithMove(subpaths[2])

\* the first and the last coordinate pair written in a fragment
OwnEnds(f) ==
    LET cs == SelectSeq(f, LAMBDA c : c \in CoordSymbols)
    IN  <<cs[1], Last(cs)>>

UnitToMm(token) ==
    CASE lower(strip(token)) \in {<<"m", "m">>, <<"m", "i", "l", "l", "i", "m", "e", "t", "e", "r">>, <<"m", "i", "l", "l", "i", "m", "e", "t", "e", "r", "s">>} -> <<1, 1>>
      [] lower(strip(token)) \in {<<"i", "n", "c", "h">>, <<"i", "n", "c", "h", "e", "s">>, <<"i", "n">>} -> <<127, 5>>
      [] lower(strip(token)) \in {<<"c", "m">>, <<"c", "e", "n", "t", "i", "m", "e", "t", "e", "r">>, <<"c", "e", "n", "t", "i", "m", "e", "t", "e", "r", "s">>} -> <<10, 1>>
      [] lower(strip(token)) \in {<<"p", "x">>, <<"p", "i", "x", "e", "l">>, <<"p", "i", "x", "e", "l", "s">>} -> <<127, 480>>
      [] OTHER -> <<1, 1>>

\* the iteration of load_dxf has given a Path
Emitted == pc = "entity_done" /\ ~fe_ret.exc /\ fe_ret.val # <<>>

\* what _flatten_entity gives for the entity of the iteration
Flat == _flatten_entity(fe_entity, fe_tol).val

\* out, in tenths of a millimetre, is p multiplied by the fraction f
MultipliedBy(p, out, f) ==
    /\ out.x * f[2] = p.x * 10 * f[1]
    /\ out.y * f[2] = p.y * 10 * f[1]
    /\ out.r * f[2] = p.r * 10 * f[1]
    /\ out.a = p.a

\* C11, as the specification states it: every point load_dxf emits is the
\* flattened point multiplied by the table's multiplier for the unit token,
\* and the conversion never fails.
C11_AsStated ==
    /\ pc = "entity_done" => ~fe_ret.exc
    /\ Emitted =>
            \A i \in 1..Len(fe_ret.val[1].points) :
                i <= Len(Flat)
                    => MultipliedBy(Flat[i], fe_ret.val[1].points[i],
                                    UnitToMm(units))

\* C16: a LINE whose flattening fails and whose ends are readable gives the
\* two points start and end, in that order, multiplied by the unit
\* multiplier; the line from (0,0) to (10,0) under the unit "in" gives (0,0)
\* and (254,0), written in tenths.
C16_LineFallback ==
    (pc = "entity_done" /\ fe_entity.dxftype = "LINE"
        /\ PrimaryFails(fe_entity)
        /\ fe_entity.start # None /\ fe_entity.end # None) =>
        /\ Emitted
        /\ Len(fe_ret.val) = 1
        /\ fe_ret.val[1].points
                = <<ScalePt(fe_entity.start[1], dxf_unit_scale_to_mm(units)),
                    ScalePt(fe_entity.end[1], dxf_unit_scale_to_mm(units))>>
        /\ (fe_entity = ExampleLine /\ units = <<"i", "n">>) =>
                fe_ret.val[1].points = <<Pt(0, 0), Pt(2540, 0)>>

\* the line of the example has been loaded under the unit "in"
C16_Witness ==
    /\ Emitted
    /\ fe_entity = ExampleLine
    /\ units = <<"i", "n">>
    /\ fe_ret.val[1].points = <<Pt(0, 0), Pt(2540, 0)>>

\* p, in tenths of a millimetre, is at distance r from c under the scale k
AtDistance(p, c, r, k) ==
    \/ p.x = c.x * k /\ p.y = c.y * k /\ p.r = r * k
    \/ p.r = 0 /\ p.y = c.y * k /\ Abs(p.x - c.x * k) = r * k

\* a CIRCLE whose flattening fails and whose centre and radius are readable
CircleFallsBack ==
    /\ pc = "entity_done"
    /\ fe_entity.dxftype = "CIRCLE"
    /\ PrimaryFails(fe_entity)
    /\ fe_entity.center # None /\ fe_entity.radius # None

\* C12, as the specification states it: a CIRCLE that falls back to
\* trigonometric sampling gives a closed Path of exactly 65 points, 64 samples
\* and the closing duplicate of the first, every one at the radius from the
\* centre.
C12_AsStated ==
    CircleFallsBack =>
        /\ Emitted
        /\ fe_ret.val[1].closed
        /\ Len(fe_ret.val[1].points) = CircleSamples + 1
        /\ \A i \in 1..Len(fe_ret.val[1].points) :
                AtDistance(fe_ret.val[1].points[i], fe_entity.center[1],
                           fe_entity.radius[1], dxf_unit_scale_to_mm(units))

\* an ARC of radius not 0 whose flattening fails and whose attributes are
\* readable has been loaded
ArcFallsBack ==
    /\ Emitted
    /\ fe_entity.dxftype = "ARC"
    /\ PrimaryFails(fe_entity)
    /\ fe_entity.center # None /\ fe_entity.radius # None
    /\ fe_entity.start_angle # None /\ fe_entity.end_angle # None
    /\ fe_entity.radius[1] # 0

\* the angle, in degrees, at which the i-th emitted point was sampled
Angle(i) == fe_ret.val[1].points[i].a

\* the end angle after line 51-52
ArcEnd ==
    IF fe_entity.end_angle[1] < fe_entity.start_angle[1]
    THEN fe_entity.end_angle[1] + 360 ELSE fe_entity.end_angle[1]

\* sweep / max(tol, 1e-4), cut to an integer, and at least 12
ArcSteps(sw) ==
    Max(12, IF FracLess(fe_tol, <<1, 10000>>) THEN sw * 10000
            ELSE IF sw >= 0 THEN (sw * fe_tol[2]) \div fe_tol[1]
            ELSE -((-sw * fe_tol[2]) \div fe_tol[1]))

\* C13, as the specification states it: for any start and end angle the
\* sampled angles of an ARC increase strictly from the start angle, at the
\* first point, to a normalised end angle that exceeds the start, at the
\* last, in max(12, sweep / max(tol, 1e-4)) uniform steps.
C13_AsStated ==
    ArcFallsBack =>
        /\ Len(fe_ret.val[1].points)
                = ArcSteps(Angle(Len(fe_ret.val[1].points))[1]
                            - fe_entity.start_angle[1]) + 1
        /\ Angle(1) = <<fe_entity.start_angle[1], 1>>
        /\ Angle(Len(fe_ret.val[1].points))[2] = 1
        /\ Angle(Len(fe_ret.val[1].points))[1] > fe_entity.start_angle[1]
        /\ Angle(Len(fe_ret.val[1].points))[1] % 360 = fe_entity.end_angle[1] % 360
        /\ \A i \in 1..(Len(fe_ret.val[1].points) - 1) :
                FracLess(Angle(i), Angle(i + 1))

\* C13, corrected: 360 is added to the end angle only when it is less than the
\* start angle; n = max(12, sweep / max(tol, 1e-4)) cut to an integer, and the
\* n + 1 sampled angles go in uniform steps from the start angle to that end
\* angle: strictly increasing when the sweep is positive, all equal when the
\* end angle equals the start, strictly decreasing when the end angle is more
\* than 360 below the start.  The arc from 0 to 90 of radius 5 begins at (5,0)
\* and ends at the point of angle 90 on the radius 5.
C13_ArcSampling ==
    ArcFallsBack =>
        /\ Len(fe_ret.val[1].points)
                = ArcSteps(ArcEnd - fe_entity.start_angle[1]) + 1
        /\ Angle(1) = <<fe_entity.start_angle[1], 1>>
        /\ Angle(Len(fe_ret.val[1].points)) = <<ArcEnd, 1>>
        /\ \A i \in 1..(Len(fe_ret.val[1].points) - 1) :
                /\ ArcEnd > fe_entity.start_angle[1]
                        => FracLess(Angle(i), Angle(i + 1))
                /\ ArcEnd = fe_entity.start_angle[1] => Angle(i) = Angle(i + 1)
                /\ ArcEnd < fe_entity.start_angle[1]
                        => FracLess(Angle(i + 1), Angle(i))
                /\ (Angle(i + 1)[1] * Angle(i)[2] - Angle(i)[1] * Angle(i + 1)[2])
                        * (Len(fe_ret.val[1].points) - 1)
                    = (ArcEnd - fe_entity.start_angle[1])
                        * Angle(i)[2] * Angle(i + 1)[2]
        /\ fe_entity = ExampleArc =>
                /\ fe_ret.val[1].points[1]
                        = ScalePt(Pt(5, 0), dxf_unit_scale_to_mm(units))
                /\ Last(fe_ret.val[1].points)
                        = ScalePt([x |-> 0, y |-> 0, r |-> 5, a |-> <<90, 1>>],
                                  dxf_unit_scale_to_mm(units))

\* an arc whose end angle equals its start angle has been sampled: every one
\* of its points is the same
C13_Witness ==
    /\ ArcFallsBack
    /\ fe_entity.end_angle = fe_entity.start_angle
    /\ Len(fe_ret.val[1].points) = 13
    /\ Angle(1) = Angle(13)

\* the kinds load_dxf classifies by type or by attribute
ClassifiedTypes == {"CIRCLE", "ELLIPSE", "LWPOLYLINE", "POLYLINE", "SPLINE"}

\* C15: a Path made from an entity that is not a circle, an ellipse, a
\* polyline or a spline is closed exactly when its first flattened point
\* equals its last, and its points are the flattened points, none added,
\* each multiplied by the unit multiplier.
C15_GeometryOnly ==
    (Emitted /\ fe_entity.dxftype \notin ClassifiedTypes) =>
        /\ fe_ret.val[1].closed = (Flat[1] = Last(Flat))
        /\ fe_ret.val[1].points
                = [i \in 1..Len(Flat) |->
                        ScalePt(Flat[i], dxf_unit_scale_to_mm(units))]

\* a line whose two ends are the same point has been loaded as a closed Path
\* of its two points
C15_Witness ==
    /\ Emitted
    /\ fe_entity.dxftype = "LINE"
    /\ fe_ret.val[1].closed
    /\ Len(fe_ret.val[1].points) = 2

\* the entity of the iteration with readable layer and colour
WithMetadata == [fe_entity EXCEPT !.layer = Some("CUT"), !.color = Some(7)]

SplineFallsBack ==
    /\ pc = "flatten_done"
    /\ fe_entity.dxftype = "SPLINE"
    /\ PrimaryFails(fe_entity)

\* the samples of the spline that evaluate, in order; none without a
\* construction tool
GoodSamples ==
    IF fe_entity.tool = None THEN <<>> ELSE SplineSampling(fe_entity.tool[1])

\* C17, as the specification states it: a SPLINE left to the type-specific
\* fallback gives the samples that evaluate, in order; it gives its control
\* points exactly when no sample evaluates, and nothing when the control
\* points cannot be read either.
C17_AsStated ==
    SplineFallsBack =>
        /\ ~fe_ret.exc
        /\ GoodSamples # <<>> => fe_ret.val = GoodSamples
        /\ GoodSamples = <<>> => fe_ret.val = Swallow(fe_entity.control_points)

\* the adaptive flattening of the entity ran to its end and gave points
CompleteFlattening ==
    ~fe_entity.flattening.err /\ fe_entity.flattening.pts # <<>>

\* what the type-specific strategy gives from the entity's own attributes
\* when it has no part of the adaptive flattening to use
OwnFallback ==
    IF fe_entity.dxftype = "!" THEN <<>>
    ELSE IF IsPolyline(fe_entity) THEN VertexLocations(fe_entity.vertices)
    ELSE Catch(TypeSpecific(fe_entity, fe_entity.dxftype, fe_tol), <<>>).val

\* C20, as stated: what _flatten_entity returns is the whole output of one
\* strategy: every point of an adaptive flattening that ran to its end, or
\* else the output of the type-specific fallback; it is never the points an
\* adaptive flattening gave before it raised.
C20_AsStated ==
    pc = "flatten_done" =>
        /\ ~fe_ret.exc
        /\ CompleteFlattening => fe_ret.val = fe_entity.flattening.pts
        /\ ~CompleteFlattening => fe_ret.val = OwnFallback

\* closed as the specification gives it for the fragment f flattened under
\* tol: a close-path command at the end, or a curve that reports itself
\* closed, or first and last flattened points within 1e-6 of each other
ClosedAsStated(f, tol) ==
    \/ endswith(upper(strip(f)), <<"Z">>)
    \/ PathIsClosed(parse_path(f).val).val
    \/ EndsMeet(_flatten_path_points(parse_path(f).val, tol))

\* C14, as the specification states it: a Path of an SVG subpath is closed
\* exactly when its command string ends with Z or z, or its curve reports
\* itself closed, or its first and last flattened points are within 1e-6 of
\* each other on both coordinates.
C14_AsStated ==
    (InLoop("svg") /\ cur[1].tag = "path" /\ cur[1].d # None) =>
        \A i \in 1..Len(FromCur) :
            paths[FromCur[i]].closed
                = ClosedAsStated(
                    _split_path_by_moves(cur[1].d[1])[srcs[FromCur[i]].sub],
                    tol_mm)

\* load_svg has read a units mode from the settings and is in its loop
ModeSupplied == call.loader = "svg" /\ pc = "svg_loop" /\ call.qt /\ q_units # None

\* Paths a and b differ in nothing but the number of their points: same
\* closed, layer, color and source, and the same first point
SameButPoints(a, b) ==
    /\ a.closed = b.closed /\ a.layer = b.layer
    /\ a.color = b.color /\ a.source = b.source
    /\ a.points[1] = b.points[1]

\* the Paths of the last element are, but for their points, those the element
\* gives under the tolerance tol
SameUnder(tol) ==
    /\ Len(SvgOutcome[cur[1], tol]) = Len(FromCur)
    /\ \A i \in 1..Len(FromCur) :
            SameButPoints(paths[FromCur[i]], SvgOutcome[cur[1], tol][i].path)

====
